---------------------------- MODULE Spec2Model ----------------------------
(***************************************************************************)
(* A model of arena_allocator.h, the single-header region allocator.       *)
(*                                                                         *)
(* The allocator keeps its bookkeeping (struct Region) inline, at the      *)
(* start of each mapping it obtains from mmap, and hands out raw pointers  *)
(* into those mappings.  The model therefore keeps one flat address space: *)
(* `mem` maps every address to the value stored there, `mapped` is the set *)
(* of pages that are currently mapped, and a Region is nothing but five    *)
(* consecutive cells of `mem` read through the field offsets below.  An    *)
(* access to a page that is not mapped raises SIGSEGV; an access that      *)
(* leaves one mapping and lands in another reads or overwrites whatever    *)
(* that mapping holds, exactly as the hardware does.                       *)
(*                                                                         *)
(* The machine is scaled down so that every value of size_t can be         *)
(* enumerated: size_t and pointers are SizeBits wide, one addressable      *)
(* cell holds one such value, a page is ARENA_PAGE_SIZE cells and the      *)
(* Region header (five size_t/pointer fields) is ARENA_REGION_SIZE = 5     *)
(* cells.  All arithmetic on size_t is modulo 2^SizeBits, as in C.         *)
(*                                                                         *)
(* Assertions are compiled in (no NDEBUG): a failed assert ends the        *)
(* process with status "aborted".  The other ways a call can fail to       *)
(* return are "segv" (an access to an unmapped page) and "hang" (a loop    *)
(* over a chain that has become cyclic).  Nothing happens after any of     *)
(* them.                                                                   *)
(*                                                                         *)
(* The program around the allocator is any program that follows the usage  *)
(* instructions: it starts from Arena arena = {0}, calls arena_init once,  *)
(* passes to arena_realloc a block it holds with the size it asked for,    *)
(* and writes only inside the blocks it was given.                         *)
(***************************************************************************)
EXTENDS Integers, Sequences, FiniteSets, TLC

\* width of size_t and of a pointer, in bits
SizeBits == 6

\* sizeof(Region): next, capacity, count, remaining, bytes
ARENA_REGION_SIZE == 5

\* sysconf(_SC_PAGESIZE), a power of two
ARENA_PAGE_SIZE == 8

\* the most calls (alloc, realloc, reset, caller's writes) the program makes
\* on the arena before arena_init, and again after it
MaxCalls == 4

SIZE_MOD == 2 ^ SizeBits

ARENA_REGION_DEFAULT_CAPACITY == ARENA_PAGE_SIZE * 2

NULL == 0

Word == 0 .. (SIZE_MOD - 1)

Pages == 0 .. ((SIZE_MOD \div ARENA_PAGE_SIZE) - 1)

\* offsets of the fields of struct Region
OFF_next == 0
OFF_capacity == 1
OFF_count == 2
OFF_remaining == 3
OFF_bytes == 4

\* request sizes the caller passes to arena_init
InitSizes == {1, 12, 52}

\* request sizes the caller passes to arena_alloc, besides the capacity of
\* the initial region
AllocSizes == {1, 4, 5, 13}

\* new sizes the caller passes to arena_realloc
ReallocSizes == {5, 13}

VARIABLES
    mem,      \* the address space: address -> stored value
    mapped,   \* the pages currently mapped
    head,     \* arena->head
    tail,     \* arena->tail
    status,   \* "running", or how the process ended: "aborted", "segv", "hang"
    blocks,   \* the blocks handed to the caller since init or the last reset
    last,     \* the last call: its name, arguments and result
    hist,     \* which of init, realloc, reset, fill, destroy were called from
              \* arena_init on
    mmaps,    \* successful mmap calls so far
    initCap,  \* capacity of the region arena_init created
    calls,    \* calls made on the arena, counted again from arena_init
    layout    \* where the kernel places new mappings in this process

vars == <<mem, mapped, head, tail, status, blocks, last, hist, mmaps, initCap,
          calls, layout>>

---------------------------------------------------------------------------
(* The address space *)

Add(a, b) == (a + b) % SIZE_MOD

Sub(a, b) == (a - b + SIZE_MOD) % SIZE_MOD

PageOf(a) == a \div ARENA_PAGE_SIZE

IsMapped(mp, a) == PageOf(a) \in mp

\* the pages a mapping request of `size` cells covers when placed at page p
PagesFor(size) == (size + ARENA_PAGE_SIZE - 1) \div ARENA_PAGE_SIZE

\* the page numbers at which a mapping of `size` cells fits in free space.
\* A length of 0 is EINVAL; page 0 is never handed out (it holds NULL).
FreeRuns(mp, size) ==
    IF size = 0 THEN {}
    ELSE { q \in Pages \ {0} :
            /\ q + PagesFor(size) - 1 \in Pages
            /\ \A k \in 0 .. (PagesFor(size) - 1) : (q + k) \notin mp }

\* mmap(NULL, size, ...): the address the kernel returns, as a set: empty is
\* MAP_FAILED.  The kernel takes the highest free run that fits (top-down,
\* the default) or the lowest (bottom-up, the legacy layout).
MmapChoices(lay, mp, size) ==
    LET runs == FreeRuns(mp, size)
    IN  IF runs = {} THEN {}
        ELSE IF lay = "topdown"
        THEN { ARENA_PAGE_SIZE * (CHOOSE q \in runs : \A r \in runs : r <= q) }
        ELSE { ARENA_PAGE_SIZE * (CHOOSE q \in runs : \A r \in runs : q <= r) }

\* the pages [addr, addr + len) touches
RangePages(addr, len) ==
    { p \in Pages : /\ p >= PageOf(addr)
                    /\ p * ARENA_PAGE_SIZE < addr + len }

\* arena__align__size
arena__align__size(size) ==
    LET region_size == ARENA_REGION_SIZE
        page_size == ARENA_PAGE_SIZE
        size_bytes == Add(region_size, size)
        sum == Add(size_bytes, page_size - 1)
    IN  sum - (sum % page_size)

\* arena__new__region with capacity and remaining set to the mapping size,
\* the header not taken off
arena__new__region_whole_mapping(m, ptr, size) ==
    [m EXCEPT ![Add(ptr, OFF_next)] = NULL,
              ![Add(ptr, OFF_capacity)] = size,
              ![Add(ptr, OFF_remaining)] = size,
              ![Add(ptr, OFF_count)] = 0,
              ![Add(ptr, OFF_bytes)] = Add(ptr, ARENA_REGION_SIZE)]

\* arena__new__region, given the address mmap returned
arena__new__region(m, ptr, size) ==
    [m EXCEPT ![Add(ptr, OFF_next)] = NULL,
              ![Add(ptr, OFF_capacity)] = Sub(size, ARENA_REGION_SIZE),
              ![Add(ptr, OFF_remaining)] = Sub(size, ARENA_REGION_SIZE),
              ![Add(ptr, OFF_count)] = 0,
              ![Add(ptr, OFF_bytes)] = Add(ptr, ARENA_REGION_SIZE)]

---------------------------------------------------------------------------
(* What a call leaves behind: how it ended (st), the address space, the    *)
(* arena handle and, for a call that returns a pointer, the pointer (ptr), *)
(* the region that served it and whether a region was appended (grew).     *)

Outcome(st, m, mp, hd, tl, ptr, region, grew) ==
    [st |-> st, mem |-> m, mapped |-> mp, head |-> hd, tail |-> tl,
     ptr |-> ptr, region |-> region, grew |-> grew]

\* FirstFit with the test written size < curr->remaining
RECURSIVE FirstFit_strict(_, _, _, _, _)
FirstFit_strict(m, mp, curr, size, seen) ==
    IF curr = NULL THEN [st |-> "nofit", region |-> NULL]
    ELSE IF curr \in seen THEN [st |-> "hang", region |-> curr]
    ELSE IF ~IsMapped(mp, Add(curr, OFF_remaining))
        THEN [st |-> "segv", region |-> curr]
    ELSE IF size < m[Add(curr, OFF_remaining)]
        THEN [st |-> "fit", region |-> curr]
    ELSE IF ~IsMapped(mp, Add(curr, OFF_next))
        THEN [st |-> "segv", region |-> curr]
    ELSE FirstFit_strict(m, mp, m[Add(curr, OFF_next)], size, seen \cup {curr})

\* FirstFit as a best-fit search: the whole chain is walked and the fitting
\* region with the least remaining is taken
RECURSIVE FirstFit_tightest(_, _, _, _, _)
FirstFit_tightest(m, mp, curr, size, seen) ==
    IF curr = NULL THEN [st |-> "nofit", region |-> NULL]
    ELSE IF curr \in seen THEN [st |-> "hang", region |-> curr]
    ELSE IF ~(IsMapped(mp, Add(curr, OFF_remaining)) /\ IsMapped(mp, Add(curr, OFF_next)))
        THEN [st |-> "segv", region |-> curr]
    ELSE LET rest == FirstFit_tightest(m, mp, m[Add(curr, OFF_next)], size,
                                       seen \cup {curr})
         IN  IF rest.st \in {"hang", "segv"} THEN rest
             ELSE IF size > m[Add(curr, OFF_remaining)] THEN rest
             ELSE IF /\ rest.st = "fit"
                     /\ m[Add(rest.region, OFF_remaining)] < m[Add(curr, OFF_remaining)]
                 THEN rest
             ELSE [st |-> "fit", region |-> curr]

\* the for loop of arena_alloc: the first region of the chain, starting at
\* curr, whose remaining is at least size.  The loop writes nothing, so
\* coming back to a region it has tested means it never ends.
RECURSIVE FirstFit(_, _, _, _, _)
FirstFit(m, mp, curr, size, seen) ==
    IF curr = NULL THEN [st |-> "nofit", region |-> NULL]
    ELSE IF curr \in seen THEN [st |-> "hang", region |-> curr]
    ELSE IF ~IsMapped(mp, Add(curr, OFF_remaining))
        THEN [st |-> "segv", region |-> curr]
    ELSE IF size <= m[Add(curr, OFF_remaining)]
        THEN [st |-> "fit", region |-> curr]
    ELSE IF ~IsMapped(mp, Add(curr, OFF_next))
        THEN [st |-> "segv", region |-> curr]
    ELSE FirstFit(m, mp, m[Add(curr, OFF_next)], size, seen \cup {curr})

\* the body of the loop of arena_alloc once curr fits
AllocFromRegion(m, mp, hd, tl, curr, size) ==
    IF ~(IsMapped(mp, Add(curr, OFF_bytes)) /\ IsMapped(mp, Add(curr, OFF_count)))
    THEN Outcome("segv", m, mp, hd, tl, NULL, curr, FALSE)
    ELSE LET ptr == Add(m[Add(curr, OFF_bytes)], m[Add(curr, OFF_count)])
             m1 == [m EXCEPT ![Add(curr, OFF_count)] = Add(@, size)]
             m2 == [m1 EXCEPT ![Add(curr, OFF_remaining)] = Sub(@, size)]
         IN  Outcome("running", m2, mp, hd, tl, ptr, curr, FALSE)

\* the mapping size arena__append__region asks for
AppendSize(size) ==
    IF size < ARENA_REGION_DEFAULT_CAPACITY
    THEN ARENA_REGION_DEFAULT_CAPACITY
    ELSE arena__align__size(size)

\* arena__append__region: every outcome, one for each address mmap may
\* return; the assert on MAP_FAILED aborts.
arena__append__region(lay, m, mp, hd, tl, size) ==
    LET sz == AppendSize(size)
        choices == MmapChoices(lay, mp, sz)
    IN  IF choices = {}
        THEN { Outcome("aborted", m, mp, hd, tl, NULL, NULL, FALSE) }
        ELSE { LET mp1 == mp \cup RangePages(region, sz)
                   m1 == arena__new__region(m, region, sz)
               IN  IF ~IsMapped(mp1, Add(tl, OFF_next))
                   THEN Outcome("segv", m1, mp1, hd, tl, NULL, region, TRUE)
                   ELSE Outcome("running",
                                [m1 EXCEPT ![Add(tl, OFF_next)] = region],
                                mp1, hd, region, NULL, region, TRUE)
               : region \in choices }

\* arena_alloc without assert(arena->head != NULL)
arena_alloc_noassert(lay, m, mp, hd, tl, size) ==
    LET ff == FirstFit(m, mp, hd, size, {})
    IN  IF ff.st = "fit"
        THEN { AllocFromRegion(m, mp, hd, tl, ff.region, size) }
        ELSE IF ff.st # "nofit"
        THEN { Outcome(ff.st, m, mp, hd, tl, NULL, ff.region, FALSE) }
        ELSE { IF o.st # "running" THEN o
               ELSE LET curr == o.tail
                        ptr == Add(o.mem[Add(curr, OFF_bytes)],
                                   o.mem[Add(curr, OFF_count)])
                    IN  [o EXCEPT !.ptr = ptr]
               : o \in arena__append__region(lay, m, mp, hd, tl, size) }

\* arena_alloc: every outcome of arena_alloc(arena, size)
arena_alloc(lay, m, mp, hd, tl, size) ==
    IF hd = NULL
    THEN { Outcome("aborted", m, mp, hd, tl, NULL, NULL, FALSE) }
    ELSE LET ff == FirstFit(m, mp, hd, size, {})
         IN  IF ff.st = "fit"
             THEN { AllocFromRegion(m, mp, hd, tl, ff.region, size) }
             ELSE IF ff.st # "nofit"
             THEN { Outcome(ff.st, m, mp, hd, tl, NULL, ff.region, FALSE) }
             ELSE { IF o.st # "running" THEN o
                    ELSE LET curr == o.tail
                             ptr == Add(o.mem[Add(curr, OFF_bytes)],
                                        o.mem[Add(curr, OFF_count)])
                         IN  [o EXCEPT !.ptr = ptr]
                    : o \in arena__append__region(lay, m, mp, hd, tl, size) }

\* the copy loop of arena_realloc, from index i on: new_ptr[i] = old_ptr[i]
RECURSIVE CopyLoop(_, _, _, _, _, _)
CopyLoop(m, mp, new_ptr, old_ptr, i, old_size) ==
    IF i >= old_size THEN [st |-> "running", mem |-> m]
    ELSE IF ~(IsMapped(mp, Add(old_ptr, i)) /\ IsMapped(mp, Add(new_ptr, i)))
        THEN [st |-> "segv", mem |-> m]
    ELSE CopyLoop([m EXCEPT ![Add(new_ptr, i)] = m[Add(old_ptr, i)]],
                  mp, new_ptr, old_ptr, i + 1, old_size)

\* arena_realloc with the early return taken for new_size > old_size
arena_realloc_inverted(lay, m, mp, hd, tl, old_ptr, old_size, new_size) ==
    IF new_size > old_size
    THEN { Outcome("running", m, mp, hd, tl, old_ptr, NULL, FALSE) }
    ELSE { IF o.st # "running" THEN o
           ELSE LET c == CopyLoop(o.mem, o.mapped, o.ptr, old_ptr, 0, old_size)
                IN  [o EXCEPT !.st = c.st, !.mem = c.mem]
           : o \in arena_alloc(lay, m, mp, hd, tl, new_size) }

\* arena_realloc: every outcome of arena_realloc(arena, old_ptr, old_size, new_size)
arena_realloc(lay, m, mp, hd, tl, old_ptr, old_size, new_size) ==
    IF new_size < old_size
    THEN { Outcome("running", m, mp, hd, tl, old_ptr, NULL, FALSE) }
    ELSE { IF o.st # "running" THEN o
           ELSE LET c == CopyLoop(o.mem, o.mapped, o.ptr, old_ptr, 0, old_size)
                IN  [o EXCEPT !.st = c.st, !.mem = c.mem]
           : o \in arena_alloc(lay, m, mp, hd, tl, new_size) }

\* ResetLoop without curr->remaining = curr->capacity
RECURSIVE ResetLoop_count_only(_, _, _, _)
ResetLoop_count_only(m, mp, curr, seen) ==
    IF curr = NULL THEN [st |-> "running", mem |-> m]
    ELSE IF <<curr, m>> \in seen THEN [st |-> "hang", mem |-> m]
    ELSE IF ~(/\ IsMapped(mp, Add(curr, OFF_count))
              /\ IsMapped(mp, Add(curr, OFF_next)))
        THEN [st |-> "segv", mem |-> m]
    ELSE LET m1 == [m EXCEPT ![Add(curr, OFF_count)] = 0]
         IN  ResetLoop_count_only(m1, mp, m1[Add(curr, OFF_next)],
                                  seen \cup {<<curr, m>>})

\* the loop of arena_reset from curr on.  It writes as it goes, so it runs
\* forever only if it comes back to a region with the memory as it was then.
RECURSIVE ResetLoop(_, _, _, _)
ResetLoop(m, mp, curr, seen) ==
    IF curr = NULL THEN [st |-> "running", mem |-> m]
    ELSE IF <<curr, m>> \in seen THEN [st |-> "hang", mem |-> m]
    ELSE IF ~(/\ IsMapped(mp, Add(curr, OFF_count))
              /\ IsMapped(mp, Add(curr, OFF_capacity))
              /\ IsMapped(mp, Add(curr, OFF_remaining))
              /\ IsMapped(mp, Add(curr, OFF_next)))
        THEN [st |-> "segv", mem |-> m]
    ELSE LET m1 == [m EXCEPT ![Add(curr, OFF_count)] = 0]
             m2 == [m1 EXCEPT ![Add(curr, OFF_remaining)] = m1[Add(curr, OFF_capacity)]]
         IN  ResetLoop(m2, mp, m2[Add(curr, OFF_next)], seen \cup {<<curr, m>>})

\* arena_reset with the loop written do { ... } while (curr != NULL): the
\* body runs before the test
arena_reset_do_while(m, mp, hd, tl) ==
    IF ~IsMapped(mp, Add(hd, OFF_count))
    THEN Outcome("segv", m, mp, hd, tl, NULL, NULL, FALSE)
    ELSE LET r == ResetLoop(m, mp, hd, {})
         IN  Outcome(r.st, r.mem, mp, hd, tl, NULL, NULL, FALSE)

\* arena_reset
arena_reset(m, mp, hd, tl) ==
    LET r == ResetLoop(m, mp, hd, {})
    IN  Outcome(r.st, r.mem, mp, hd, tl, NULL, NULL, FALSE)

\* munmap(addr, len): EINVAL unless addr is page aligned, len > 0 and the
\* range lies in the address space; otherwise every page of the range is
\* gone, mapped before or not.
MunmapOk(addr, len) ==
    /\ addr % ARENA_PAGE_SIZE = 0
    /\ len > 0
    /\ addr + len <= SIZE_MOD

\* arena__free__region, the region's capacity readable
arena__free__region(m, mp, region) ==
    LET size_bytes == Add(ARENA_REGION_SIZE, m[Add(region, OFF_capacity)])
    IN  IF ~MunmapOk(region, size_bytes)
        THEN [st |-> "aborted", mem |-> m, mapped |-> mp]
        ELSE LET gone == RangePages(region, size_bytes)
             IN  [st |-> "running",
                  mem |-> [a \in Word |-> IF PageOf(a) \in gone THEN 0 ELSE m[a]],
                  mapped |-> mp \ gone]

\* the loop of arena_destroy from curr on
RECURSIVE DestroyLoop(_, _, _)
DestroyLoop(m, mp, curr) ==
    IF curr = NULL THEN [st |-> "running", mem |-> m, mapped |-> mp]
    ELSE IF ~(IsMapped(mp, Add(curr, OFF_next)) /\ IsMapped(mp, Add(curr, OFF_capacity)))
        THEN [st |-> "segv", mem |-> m, mapped |-> mp]
    ELSE LET next == m[Add(curr, OFF_next)]
             f == arena__free__region(m, mp, curr)
         IN  IF f.st # "running" THEN f
             ELSE DestroyLoop(f.mem, f.mapped, next)

\* arena_destroy without the two assignments that clear the handle
arena_destroy_keeps_handle(m, mp, hd, tl) ==
    LET r == DestroyLoop(m, mp, hd)
    IN  Outcome(r.st, r.mem, r.mapped, hd, tl, NULL, NULL, FALSE)

\* arena_destroy
arena_destroy(m, mp, hd, tl) ==
    LET r == DestroyLoop(m, mp, hd)
    IN  IF r.st = "running"
        THEN Outcome("running", r.mem, r.mapped, NULL, NULL, NULL, NULL, FALSE)
        ELSE Outcome(r.st, r.mem, r.mapped, hd, tl, NULL, NULL, FALSE)

\* arena_init with the sizing rule of arena__append__region: never less than
\* ARENA_REGION_DEFAULT_CAPACITY
arena_init_default_policy(lay, m, mp, hd, tl, size) ==
    LET sz == IF size < ARENA_REGION_DEFAULT_CAPACITY
              THEN ARENA_REGION_DEFAULT_CAPACITY
              ELSE arena__align__size(size)
        choices == MmapChoices(lay, mp, sz)
    IN  IF choices = {}
        THEN { Outcome("aborted", m, mp, hd, tl, NULL, NULL, FALSE) }
        ELSE { Outcome("running", arena__new__region(m, region, sz),
                       mp \cup RangePages(region, sz), region, region,
                       NULL, region, FALSE)
               : region \in choices }

\* arena_init: every outcome of arena_init(arena, size)
arena_init(lay, m, mp, hd, tl, size) ==
    LET sz == arena__align__size(size)
        choices == MmapChoices(lay, mp, sz)
    IN  IF choices = {}
        THEN { Outcome("aborted", m, mp, hd, tl, NULL, NULL, FALSE) }
        ELSE { Outcome("running", arena__new__region(m, region, sz),
                       mp \cup RangePages(region, sz), region, region,
                       NULL, region, FALSE)
               : region \in choices }

\* the caller writing through a pointer it was given: cell k of the block
\* receives k + 1, from index i on
RECURSIVE FillLoop(_, _, _, _, _)
FillLoop(m, mp, ptr, i, size) ==
    IF i >= size THEN [st |-> "running", mem |-> m]
    ELSE IF ~IsMapped(mp, Add(ptr, i)) THEN [st |-> "segv", mem |-> m]
    ELSE FillLoop([m EXCEPT ![Add(ptr, i)] = i + 1], mp, ptr, i + 1, size)


---------------------------------------------------------------------------
(* The calls a program makes on one arena, Arena arena = {0} to begin with *)

\* the record of a call: its size argument, the pointer it returned, the
\* region that served it, whether it appended a region, and (old, oldsz):
\* arena_realloc's old_ptr and old_size; for arena_reset and arena_destroy
\* old is the arena->head the call found
Call(op, size, ptr, region, grew, old, oldsz) ==
    [op |-> op, size |-> size, ptr |-> ptr, region |-> region, grew |-> grew,
     old |-> old, oldsz |-> oldsz]

Block(ptr, size, region) ==
    [ptr |-> ptr, size |-> size, region |-> region, live |-> TRUE]

\* the arguments a caller passes as (old_ptr, old_size): a block it holds,
\* or (NULL, 0) for the first growth of an empty buffer
OldArgs ==
    { [ptr |-> blocks[i].ptr, size |-> blocks[i].size, idx |-> i]
        : i \in { j \in 1 .. Len(blocks) : blocks[j].live } }
    \cup { [ptr |-> NULL, size |-> 0, idx |-> 0] }

Init ==
    /\ mem = [a \in Word |-> 0]
    /\ mapped = {}
    /\ head = NULL
    /\ tail = NULL
    /\ status = "running"
    /\ blocks = <<>>
    /\ last = Call("none", 0, NULL, NULL, FALSE, NULL, 0)
    /\ hist = {}
    /\ mmaps = 0
    /\ initCap = 0
    /\ calls = 0
    /\ layout \in {"topdown", "bottomup"}

\* what every call does with the outcome o of the function it ran
Apply(o) ==
    /\ mem' = o.mem
    /\ mapped' = o.mapped
    /\ head' = o.head
    /\ tail' = o.tail
    /\ status' = o.st

\* arena_init(&arena, size): "This must be called at the beginning of the
\* lifetime to initialize the arena", once
CallInit(size) ==
    /\ status = "running"
    /\ head = NULL
    /\ "init" \notin hist
    /\ \E o \in arena_init(layout, mem, mapped, head, tail, size) :
        /\ Apply(o)
        /\ last' = Call("init", size, NULL, o.region, FALSE, NULL, 0)
        /\ mmaps' = IF o.st = "running" THEN 1 ELSE 0
        /\ initCap' = IF o.st = "running"
                      THEN o.mem[Add(o.head, OFF_capacity)] ELSE 0
    /\ hist' = {"init"}
    /\ calls' = 0
    /\ UNCHANGED <<blocks, layout>>

\* p = arena_alloc(&arena, size)
CallAlloc(size) ==
    /\ status = "running"
    /\ calls < MaxCalls
    /\ \E o \in arena_alloc(layout, mem, mapped, head, tail, size) :
        /\ Apply(o)
        /\ last' = Call("alloc", size, o.ptr, o.region, o.grew, NULL, 0)
        /\ mmaps' = IF o.grew THEN mmaps + 1 ELSE mmaps
        /\ blocks' = IF o.st = "running"
                     THEN Append(blocks, Block(o.ptr, size, o.region))
                     ELSE blocks
    /\ calls' = calls + 1
    /\ UNCHANGED <<hist, initCap, layout>>

\* q = arena_realloc(&arena, p, old_size, new_size)
CallRealloc(new_size) ==
    /\ status = "running"
    /\ calls < MaxCalls
    /\ \E old \in OldArgs :
        /\ \E o \in arena_realloc(layout, mem, mapped, head, tail, old.ptr, old.size, new_size) :
            /\ Apply(o)
            /\ last' = Call("realloc", new_size, o.ptr, o.region, o.grew,
                            old.ptr, old.size)
            /\ mmaps' = IF o.grew THEN mmaps + 1 ELSE mmaps
            /\ blocks' = IF o.st # "running" \/ new_size < old.size THEN blocks
                         ELSE Append(IF old.idx = 0 THEN blocks
                                     ELSE [blocks EXCEPT ![old.idx].live = FALSE],
                                     Block(o.ptr, new_size, o.region))
    /\ hist' = hist \cup {"realloc"}
    /\ calls' = calls + 1
    /\ UNCHANGED <<initCap, layout>>

\* arena_reset(&arena)
CallReset ==
    /\ status = "running"
    /\ calls < MaxCalls
    /\ LET o == arena_reset(mem, mapped, head, tail)
       IN  Apply(o)
    /\ last' = Call("reset", 0, NULL, NULL, FALSE, head, 0)
    /\ blocks' = <<>>
    /\ hist' = hist \cup {"reset"}
    /\ calls' = calls + 1
    /\ UNCHANGED <<mmaps, initCap, layout>>

\* arena_destroy(&arena)
CallDestroy ==
    /\ status = "running"
    /\ LET o == arena_destroy(mem, mapped, head, tail)
       IN  Apply(o)
    /\ last' = Call("destroy", 0, NULL, NULL, FALSE, head, 0)
    /\ blocks' = <<>>
    /\ hist' = hist \cup {"destroy"}
    /\ UNCHANGED <<mmaps, initCap, calls, layout>>

\* the caller fills a block it holds: p[k] = k + 1 for k < size
UserFill ==
    /\ status = "running"
    /\ calls < MaxCalls
    /\ \E i \in 1 .. Len(blocks) :
        /\ blocks[i].live
        /\ blocks[i].size > 0
        /\ LET f == FillLoop(mem, mapped, blocks[i].ptr, 0, blocks[i].size)
           IN  /\ mem' = f.mem
               /\ status' = f.st
        /\ last' = Call("fill", blocks[i].size, blocks[i].ptr, blocks[i].region,
                        FALSE, NULL, 0)
    /\ hist' = hist \cup {"fill"}
    /\ calls' = calls + 1
    /\ UNCHANGED <<mapped, head, tail, blocks, mmaps, initCap, layout>>

Next ==
    \/ \E size \in InitSizes : CallInit(size)
    \/ \E size \in AllocSizes \cup {initCap} : CallAlloc(size)
    \/ \E new_size \in ReallocSizes : CallRealloc(new_size)
    \/ CallReset
    \/ CallDestroy
    \/ UserFill

Spec == Init /\ [][Next]_vars


---------------------------------------------------------------------------
(* Reading the arena in the current state *)

Capacity(r) == mem[Add(r, OFF_capacity)]

Count(r) == mem[Add(r, OFF_count)]

Remaining(r) == mem[Add(r, OFF_remaining)]

Bytes(r) == mem[Add(r, OFF_bytes)]

NextOf(r) == mem[Add(r, OFF_next)]

\* the regions met following next from curr, as far as they can be read
RECURSIVE ChainFrom(_, _)
ChainFrom(curr, seen) ==
    IF curr = NULL \/ curr \in seen THEN seen
    ELSE IF \E k \in 0 .. (ARENA_REGION_SIZE - 1) : ~IsMapped(mapped, Add(curr, k))
        THEN seen
    ELSE ChainFrom(NextOf(curr), seen \cup {curr})

Chain == ChainFrom(head, {})

\* total size of the blocks in bs that satisfy the test keep
RECURSIVE SumSizes(_, _)
SumSizes(bs, region) ==
    IF bs = <<>> THEN 0
    ELSE (IF region = NULL \/ Head(bs).region = region THEN Head(bs).size ELSE 0)
         + SumSizes(Tail(bs), region)

\* two blocks share no cell
Disjoint(a, b) == a.ptr + a.size <= b.ptr \/ b.ptr + b.size <= a.ptr

---------------------------------------------------------------------------
(* C1: between arena_init and the next reset or destroy, the ranges        *)
(* [p, p + n) returned by any two arena_alloc calls with n > 0 are         *)
(* disjoint, growth calls included.                                        *)
C1_AllocsDisjoint ==
    (status = "running" /\ hist = {"init"}) =>
        \A i, j \in 1 .. Len(blocks) :
            (i < j /\ blocks[i].size > 0 /\ blocks[j].size > 0)
                => Disjoint(blocks[i], blocks[j])

(* C2: the block arena_alloc(arena, n) returns lies inside the usable      *)
(* buffer of the region that served it, bytes <= p and p + n <= bytes +    *)
(* capacity; in particular an appended region has capacity >= n.           *)
C2_BlockInsideRegion ==
    (status = "running" /\ hist = {"init"} /\ last.op = "alloc") =>
        /\ Bytes(last.region) <= last.ptr
        /\ last.ptr + last.size <= Bytes(last.region) + Capacity(last.region)
        /\ last.grew => Capacity(last.region) >= last.size

(* C3: after any sequence of init, alloc, realloc and reset, every region  *)
(* of the chain has 0 <= count <= capacity and remaining = capacity -      *)
(* count.                                                                  *)
C3_RegionAccounting ==
    (status = "running" /\ hist \subseteq {"init", "realloc", "reset"}) =>
        \A r \in Chain :
            /\ Count(r) <= Capacity(r)
            /\ Remaining(r) = Capacity(r) - Count(r)

(* C4: an arena_alloc(arena, n) that finds no fit returns the first usable *)
(* byte of the new tail and leaves that region with count = n and          *)
(* remaining = capacity - n, so that every region's count is the total     *)
(* handed out from it since init or the last reset.                        *)
C4_GrowthRecordsBlock ==
    (status = "running" /\ hist \subseteq {"init", "reset"}) =>
        /\ (last.op = "alloc" /\ last.grew) =>
              /\ last.region = tail
              /\ last.ptr = Bytes(tail)
              /\ Count(tail) = last.size
              /\ Remaining(tail) = Capacity(tail) - last.size
        /\ \A r \in Chain : Count(r) = SumSizes(blocks, r)


\* the step is a call of arena_realloc with new_size < old_size
ShrinkStep == status = "running" /\ last'.op = "realloc" /\ last'.size < last'.oldsz

\* the step is a call of arena_realloc with new_size >= old_size
GrowStep == status = "running" /\ last'.op = "realloc" /\ last'.size >= last'.oldsz

\* the step is a call of arena_alloc
AllocStep == status = "running" /\ last'.op = "alloc"

\* the step is a call of arena_destroy
DestroyStep == status = "running" /\ last'.op = "destroy"

(* C5: arena_realloc with new_size < old_size returns old_ptr and leaves   *)
(* the arena as it was: no count or remaining changes, no region is        *)
(* appended, head and tail stay, and the call does not fail.               *)
C5_ShrinkIsNoOp ==
    [][ShrinkStep =>
          /\ status' = "running"
          /\ last'.ptr = last'.old
          /\ ~last'.grew
          /\ UNCHANGED <<mem, mapped, head, tail, mmaps, blocks>>]_vars

C5_Witness ==
    /\ status = "running"
    /\ last.op = "realloc"
    /\ last.size < last.oldsz
    /\ last.old # NULL
    /\ last.ptr = last.old

(* C6: arena_realloc with new_size >= old_size on a live block of old_size *)
(* cells returns a block whose first old_size cells hold what the old      *)
(* block held when the call was made.                                      *)
C6_GrowKeepsContent ==
    [][(GrowStep /\ last'.old # NULL /\ status' = "running") =>
          \A i \in 0 .. (last'.oldsz - 1) :
              mem'[Add(last'.ptr, i)] = mem[Add(last'.old, i)]]_vars

\* the sizes asked of arena_alloc so far, a call that did not return included
Requested ==
    SumSizes(blocks, NULL)
        + (IF status # "running" /\ last.op = "alloc" THEN last.size ELSE 0)

(* C7: from a fresh arena_init, as long as the sizes asked of arena_alloc  *)
(* add up to no more than the initial region's capacity, no region is      *)
(* appended: the mapping made by arena_init is the only one.               *)
C7_NoGrowthWithinCapacity ==
    (hist = {"init"} /\ head # NULL /\ Requested <= initCap) =>
        /\ status = "running"
        /\ mmaps = 1
        /\ head = tail
        /\ NextOf(head) = NULL
        /\ last.op = "alloc" => (~last.grew /\ last.region = head)

C7_Witness ==
    /\ status = "running"
    /\ hist = {"init"}
    /\ Len(blocks) >= 2
    /\ \A i \in 1 .. Len(blocks) : blocks[i].size > 0
    /\ SumSizes(blocks, NULL) = initCap
    /\ mmaps = 1

C9_DestroyClearsAndRepeats ==
    [][DestroyStep =>
          /\ status' = "running" => (head' = NULL /\ tail' = NULL)
          /\ (head = NULL /\ "destroy" \in hist) =>
                /\ status' = "running"
                /\ UNCHANGED <<mem, mapped, head, tail, mmaps>>]_vars

C9_Witness ==
    /\ status = "running"
    /\ last.op = "destroy"
    /\ last.old = NULL
    /\ "init" \in hist
    /\ head = NULL
    /\ tail = NULL

(* C9 as stated: after arena_destroy head and tail are both NULL, and a    *)
(* second arena_destroy without an arena_init in between is a fatal        *)
(* precondition violation, not a silent no-op.                             *)
C9_SecondDestroyFatal ==
    [][DestroyStep =>
          /\ status' = "running" => (head' = NULL /\ tail' = NULL)
          /\ (head = NULL /\ "destroy" \in hist) => status' = "aborted"]_vars

(* C10: arena_alloc, or arena_realloc with new_size >= old_size, on an     *)
(* arena whose head is NULL (never initialized, or destroyed) ends the     *)
(* process on the assertion: it maps nothing, changes nothing in the arena *)
(* and returns no pointer.                                                 *)
C10_AllocOnUnsetArenaAborts ==
    [][((AllocStep \/ GrowStep) /\ head = NULL) =>
          /\ status' = "aborted"
          /\ last'.ptr = NULL
          /\ ~last'.grew
          /\ UNCHANGED <<mem, mapped, head, tail, mmaps, blocks>>]_vars

C10_Witness ==
    /\ status = "aborted"
    /\ last.op = "realloc"
    /\ last.size >= last.oldsz
    /\ "destroy" \in hist
    /\ head = NULL
    /\ mapped = {}

\* the step is a call of arena_reset
ResetStep == status = "running" /\ last'.op = "reset"

(* C11 as amended: arena_reset on an arena whose head is NULL (never       *)
(* initialized, or destroyed) returns normally and changes nothing.        *)
C11_ResetOnUnsetArenaReturns ==
    [][(ResetStep /\ head = NULL) =>
          /\ status' = "running"
          /\ UNCHANGED <<mem, mapped, head, tail, mmaps>>]_vars

C11_Witness ==
    /\ status = "running"
    /\ last.op = "reset"
    /\ last.old = NULL
    /\ "destroy" \in hist
    /\ head = NULL
    /\ tail = NULL

(* C11 as stated: arena_reset on an arena whose head is NULL fails fatally *)
(* rather than returning normally.                                         *)
C11_ResetOnUnsetArenaFatal ==
    [][(ResetStep /\ head = NULL) => status' # "running"]_vars


\* arena_init(arena, 1) has just returned
InitOneDone == status = "running" /\ last.op = "init" /\ last.size = 1

(* C12 as amended: arena_init(arena, 1) yields exactly one region, mapped  *)
(* with one page: its capacity is the page size less the header, not two   *)
(* pages less the header.                                                  *)
C12_InitOneIsOnePage ==
    InitOneDone =>
        /\ head # NULL
        /\ Chain = {head}
        /\ mmaps = 1
        /\ mapped = {PageOf(head)}
        /\ Capacity(head) = ARENA_PAGE_SIZE - ARENA_REGION_SIZE

C12_Witness ==
    /\ InitOneDone
    /\ Capacity(head) = ARENA_PAGE_SIZE - ARENA_REGION_SIZE
    /\ Capacity(head) < ARENA_REGION_DEFAULT_CAPACITY - ARENA_REGION_SIZE

(* C12 as stated: arena_init(arena, 1) yields exactly one region whose     *)
(* capacity is at least two pages less the header: the default two-page    *)
(* policy applies to the initial region.                                   *)
C12_InitOneIsDefaultCapacity ==
    InitOneDone =>
        /\ Chain = {head}
        /\ Capacity(head) >= 2 * ARENA_PAGE_SIZE - ARENA_REGION_SIZE


\* the regions met following next from curr, in chain order
RECURSIVE ChainSeqFrom(_, _)
ChainSeqFrom(curr, acc) ==
    IF curr = NULL \/ (\E i \in 1 .. Len(acc) : acc[i] = curr) THEN acc
    ELSE IF \E k \in 0 .. (ARENA_REGION_SIZE - 1) : ~IsMapped(mapped, Add(curr, k))
        THEN acc
    ELSE ChainSeqFrom(NextOf(curr), Append(acc, curr))

ChainSeq == ChainSeqFrom(head, <<>>)

\* the positions in the chain of the regions with remaining >= n
Fitting(n) == { i \in 1 .. Len(ChainSeq) : Remaining(ChainSeq[i]) >= n }

\* the first of them
FirstFitting(n) == ChainSeq[CHOOSE i \in Fitting(n) : \A j \in Fitting(n) : i <= j]

(* C13: arena_alloc(arena, n) is first-fit in chain order: when some       *)
(* region has remaining >= n the block comes from the first such region    *)
(* from head on, the pointer returned is that region's bytes + its count   *)
(* before the call, and its count has grown and its remaining shrunk by n, *)
(* whatever the regions after it hold.                                     *)
C13_FirstFitInChainOrder ==
    [][(AllocStep /\ head # NULL /\ Fitting(last'.size) # {}) =>
          LET n == last'.size
              r == FirstFitting(n)
          IN  /\ status' = "running"
              /\ ~last'.grew
              /\ last'.region = r
              /\ last'.ptr = Add(Bytes(r), Count(r))
              /\ mem'[Add(r, OFF_count)] = Add(Count(r), n)
              /\ mem'[Add(r, OFF_remaining)] = Sub(Remaining(r), n)
              /\ UNCHANGED <<mapped, head, tail, mmaps>>]_vars

\* an alloc was served by a region although a later region of the chain
\* also fitted, and more tightly
C13_Witness ==
    /\ status = "running"
    /\ last.op = "alloc"
    /\ last.size > 0
    /\ ~last.grew
    /\ \E i, j \in 1 .. Len(ChainSeq) :
        /\ i < j
        /\ ChainSeq[i] = last.region
        /\ Remaining(ChainSeq[j]) >= last.size
        /\ Remaining(ChainSeq[j]) < Remaining(ChainSeq[i]) + last.size


Max(a, b) == IF a >= b THEN a ELSE b

(* C14: arena__append__region(arena, size) maps a region of exactly        *)
(* max(ARENA_REGION_DEFAULT_CAPACITY, arena__align__size(size)) bytes, for *)
(* every size.                                                             *)
C14_AppendMapsMaxOfDefaultAndAligned ==
    [][((AllocStep \/ GrowStep) /\ last'.grew) =>
          /\ Cardinality(mapped' \ mapped) * ARENA_PAGE_SIZE
                = Max(ARENA_REGION_DEFAULT_CAPACITY, arena__align__size(last'.size))
          /\ mem'[Add(last'.region, OFF_capacity)] + ARENA_REGION_SIZE
                = Max(ARENA_REGION_DEFAULT_CAPACITY, arena__align__size(last'.size))]_vars


\* the cells arena_reset is meant to write: count and remaining of the
\* regions of the chain
ResetCells ==
    UNION { {Add(ChainSeq[i], OFF_count), Add(ChainSeq[i], OFF_remaining)}
              : i \in 1 .. Len(ChainSeq) }

(* C15: arena_reset sets count = 0 and remaining = capacity in every       *)
(* region of the chain and changes nothing else: head, tail, every next    *)
(* link, the number and order of the regions, every capacity and every     *)
(* mapping are as before the call.                                         *)
C15_ResetFrame ==
    [][ResetStep =>
          /\ status' = "running"
          /\ \A i \in 1 .. Len(ChainSeq) :
                /\ mem'[Add(ChainSeq[i], OFF_count)] = 0
                /\ mem'[Add(ChainSeq[i], OFF_remaining)] = Capacity(ChainSeq[i])
          /\ \A a \in Word \ ResetCells : mem'[a] = mem[a]
          /\ ChainSeq' = ChainSeq
          /\ UNCHANGED <<mapped, head, tail, mmaps>>]_vars

\* the step is a call on an initialized arena that returns, arena_destroy
\* and the caller's own writes aside
LifetimeStep ==
    /\ status = "running"
    /\ status' = "running"
    /\ head # NULL
    /\ last'.op \in {"alloc", "realloc", "reset"}
    /\ "fill" \notin hist

(* C16: between arena_init and arena_destroy the chain changes shape only  *)
(* when an arena_alloc, called directly or by a growing arena_realloc,     *)
(* finds no fit, and then one region is linked after the old tail and is   *)
(* the new tail; regions of the chain are never removed or reordered and   *)
(* their capacities never change; an arena_alloc that finds a fit changes  *)
(* only the count and remaining of the region it chose.                    *)
C16_ChainGrowsOnlyAtTail ==
    [][LifetimeStep =>
          /\ head' = head
          /\ \A i \in 1 .. Len(ChainSeq) :
                mem'[Add(ChainSeq[i], OFF_capacity)] = Capacity(ChainSeq[i])
          /\ \/ ChainSeq' = ChainSeq /\ tail' = tail /\ mapped' = mapped
             \/ /\ AllocStep \/ GrowStep
                /\ Fitting(last'.size) = {}
                /\ last'.grew
                /\ tail' # tail
                /\ mem'[Add(tail, OFF_next)] = tail'
                /\ ChainSeq' = Append(ChainSeq, tail')
          /\ (AllocStep /\ Fitting(last'.size) # {}) =>
                \A a \in Word \ { Add(FirstFitting(last'.size), OFF_count),
                                  Add(FirstFitting(last'.size), OFF_remaining) } :
                    mem'[a] = mem[a]]_vars


\* arena_init has just returned
InitDone == status = "running" /\ last.op = "init"

(* C17: arena_init(arena, size) creates exactly one region, mapped with    *)
(* arena__align__size(size) bytes, with capacity = remaining = that size   *)
(* less the header, count = 0 and next = NULL, and sets head and tail both *)
(* to it.                                                                  *)
C17_InitCreatesOneRegion ==
    InitDone =>
        /\ head # NULL
        /\ tail = head
        /\ mmaps = 1
        /\ mapped = RangePages(head, arena__align__size(last.size))
        /\ Cardinality(mapped) * ARENA_PAGE_SIZE = arena__align__size(last.size)
        /\ Capacity(head) = arena__align__size(last.size) - ARENA_REGION_SIZE
        /\ Remaining(head) = arena__align__size(last.size) - ARENA_REGION_SIZE
        /\ Count(head) = 0
        /\ NextOf(head) = NULL
        /\ Bytes(head) = head + ARENA_REGION_SIZE

C17_Witness ==
    /\ InitDone
    /\ last.size = 12
    /\ head = tail
    /\ Cardinality(mapped) = 3
    /\ Capacity(head) = 19
    /\ Remaining(head) = 19


---------------------------------------------------------------------------
(* arena__align__size on its own: a program that calls it once, on any     *)
(* size_t.  The argument is last.size and the value returned is last.ptr.  *)

AlignInit ==
    /\ mem = [a \in Word |-> 0]
    /\ mapped = {}
    /\ head = NULL
    /\ tail = NULL
    /\ status = "running"
    /\ blocks = <<>>
    /\ last \in { Call("none", size, NULL, NULL, FALSE, NULL, 0) : size \in Word }
    /\ hist = {}
    /\ mmaps = 0
    /\ initCap = 0
    /\ calls = 0
    /\ layout = "topdown"

\* r = arena__align__size(size)
CallAlign ==
    /\ last.op = "none"
    /\ last' = [last EXCEPT !.op = "align", !.ptr = arena__align__size(last.size)]
    /\ UNCHANGED <<mem, mapped, head, tail, status, blocks, hist, mmaps,
                   initCap, calls, layout>>

AlignNext == CallAlign

AlignSpec == AlignInit /\ [][AlignNext]_vars

(* C18: for every size s of the machine's size_t, arena__align__size(s) is *)
(* a multiple of the page size r with s + header <= r < s + header + page; *)
(* for s = 0 it is at least one page; it is never less than the request    *)
(* plus the header.                                                        *)
C18_AlignCoversRequest ==
    (last.op = "align") =>
        LET s == last.size
            r == last.ptr
        IN  /\ r % ARENA_PAGE_SIZE = 0
            /\ s + ARENA_REGION_SIZE <= r
            /\ r < s + ARENA_REGION_SIZE + ARENA_PAGE_SIZE
            /\ (s = 0) => (r >= ARENA_PAGE_SIZE)


\* the pages arena__free__region releases for region r
RegionPages(r) == RangePages(r, ARENA_REGION_SIZE + Capacity(r))

(* C19: arena_destroy, after any arena_alloc, arena_realloc and            *)
(* arena_reset calls following one arena_init, releases every mapping made *)
(* since that init exactly once and with the length it was mapped with,    *)
(* header + capacity, reads no region after releasing it, and ends with    *)
(* head = tail = NULL: nothing is leaked and nothing is released twice.    *)
C19_DestroyReleasesAll ==
    [][(DestroyStep /\ head # NULL /\ "fill" \notin hist) =>
          /\ Len(ChainSeq) = mmaps
          /\ \A i \in 1 .. Len(ChainSeq) :
                (ARENA_REGION_SIZE + Capacity(ChainSeq[i])) % ARENA_PAGE_SIZE = 0
          /\ \A i, j \in 1 .. Len(ChainSeq) :
                (i # j) => (RegionPages(ChainSeq[i]) \cap RegionPages(ChainSeq[j]) = {})
          /\ UNION { RegionPages(ChainSeq[i]) : i \in 1 .. Len(ChainSeq) } = mapped
          /\ status' = "running"
          /\ mapped' = {}
          /\ head' = NULL
          /\ tail' = NULL]_vars


(* C20: in every state between calls the arena handle is well formed:      *)
(* either head and tail are both NULL, or the chain followed from head     *)
(* through next is finite and acyclic, contains tail, and tail is its last *)
(* region, tail->next = NULL; right after arena_init tail = head.          *)
C20_HandleWellFormed ==
    (status = "running" /\ "fill" \notin hist) =>
        /\ \/ head = NULL /\ tail = NULL
           \/ /\ head # NULL
              /\ Len(ChainSeq) >= 1
              /\ ChainSeq[Len(ChainSeq)] = tail
              /\ NextOf(tail) = NULL
        /\ (last.op = "init") => (tail = head)


=============================================================================
